---- MODULE Spec2Model ----
(***************************************************************************)
(* Model of the collaborative whiteboard client (WhiteboardCanvas): the    *)
(* live board (lines, shapes), the undo/redo history, the eraser and the   *)
(* socket event handlers.  Every handler runs to completion and React      *)
(* re-renders before the next event, so a handler reads the state its      *)
(* predecessor left (one action per handler).                              *)
(*                                                                         *)
(* Numbers: world coordinates are integers; viewport.scale is the exact    *)
(* rational scale.n / scale.d, so distance tests are decided exactly by    *)
(* comparing squares.                                                      *)
(***************************************************************************)
EXTENDS Integers, Sequences, FiniteSets, TLC

VARIABLES
    lines,          \* useState<LineData[]>: the live strokes
    shapes,         \* useState<ShapeData[]>: the live shapes
    history,        \* useState<{lines, shapes}[]>: the snapshots
    historyIndex,   \* useState<number>: 0-based index into history
    selectedTool,   \* useState<string>
    selectedColor,  \* useState<string>
    selectedLineWidth, \* useState<number>
    viewport,       \* useState<Viewport>: x, y, scale (scale = n/d)
    isPanning,      \* useState<boolean>
    isDrawingRef,   \* useRef<boolean>
    startPos,       \* useRef<{x, y} | null>
    lastPanPos,     \* useRef<{x, y} | null>
    emitted,        \* the socket.emit calls of the handler that ran last
    lastOp,         \* the handler (or clock or relay step) that ran last
                    \* and its pointer position
    users,          \* useState<User[]>: the presence set
    currentUser,    \* useState<User | null>: the local user
    storage,        \* localStorage["whiteboard_user_" + roomId]
    now,            \* Date.now(), in milliseconds
    mounted,        \* the component is mounted
    wire,           \* events this client emitted, on their way to the peer
    peer,           \* the board and history of a second client of the room
    inbox,          \* events the relay sent to this client, and how many
                    \* of them its handlers have taken
    isConnected,    \* useState<boolean> of WhiteboardCanvas
    pageIsConnected, \* useState<boolean> isConnected of RoomPage
    socketConnected, \* socket.connected
    timers          \* the pending timers: the heartbeat and sweep intervals
                    \* and the number of disconnect timeouts

boardVars == <<lines, shapes, history, historyIndex>>
toolVars == <<selectedTool, selectedColor, selectedLineWidth>>
gestureVars == <<isPanning, isDrawingRef, startPos, lastPanPos>>
canvasVars == <<lines, shapes, history, historyIndex, selectedTool,
                selectedColor, selectedLineWidth, viewport, isPanning,
                isDrawingRef, startPos, lastPanPos>>
presenceVars == <<users, currentUser, storage, now, mounted>>
connVars == <<isConnected, pageIsConnected, socketConnected, timers>>
linkVars == <<wire, peer, inbox, connVars>>
vars == <<lines, shapes, history, historyIndex, selectedTool, selectedColor,
          selectedLineWidth, viewport, isPanning, isDrawingRef, startPos,
          lastPanPos, emitted, lastOp, users, currentUser, storage, now,
          mounted, wire, peer, inbox, isConnected, pageIsConnected,
          socketConnected, timers>>

----------------------------------------------------------------------------
(* Bounds of the model *)

MaxLines == 2
MaxPts == 2
MaxShapes == 1
MaxHist == 3

----------------------------------------------------------------------------
(* Values *)

Null == [null |-> TRUE]

Pos(px, py) == [x |-> px, y |-> py]

Rat(num, den) == [n |-> num, d |-> den]

LineData(pts, t, c, w) == [points |-> pts, tool |-> t, color |-> c, lineWidth |-> w]

ShapeData(t, px, py, w, h) ==
    [type |-> t, x |-> px, y |-> py, width |-> w, height |-> h, tool |-> t]

Snapshot(ls, ss) == [lines |-> ls, shapes |-> ss]

EmptySnapshot == Snapshot(<<>>, <<>>)

\* The handler that runs, the world position of its pointer event, and the
\* history index, history length, scale and number of users it finds
Op(name, px, py) ==
    [op |-> name, x |-> px, y |-> py, index |-> historyIndex,
     length |-> Len(history), scale |-> viewport.scale,
     present |-> Len(users)]

\* World positions the pointer is at (the results of getMousePos)
PointerPositions == {Pos(0, 0)}

----------------------------------------------------------------------------
(* History *)

\* A commit that appends without cutting the redo tail
NewHistory_keep(hist, idx, newLines, newShapes) ==
    Append(hist, Snapshot(newLines, newShapes))

\* history.slice(0, historyIndex + 1) followed by the new snapshot
NewHistory(hist, idx, newLines, newShapes) ==
    Append(SubSeq(hist, 1, idx + 1), Snapshot(newLines, newShapes))

\* A commit that leaves the index one past the last slot
CommitIndex_off(newHistory) == Len(newHistory)

\* newHistory.length - 1
CommitIndex(newHistory) == Len(newHistory) - 1

\* addToHistory(newLines, newShapes): the new values of history, historyIndex
addToHistory(newLines, newShapes) ==
    /\ history' = NewHistory(history, historyIndex, newLines, newShapes)
    /\ historyIndex' =
           CommitIndex(NewHistory(history, historyIndex, newLines, newShapes))

----------------------------------------------------------------------------
(* Eraser *)

\* An eraser whose radius is 12 world units at every zoom
IsInEraser_unscaled(pointX, pointY, x, y, scale) ==
    (pointX - x) * (pointX - x) + (pointY - y) * (pointY - y) <= 144

\* distance <= eraserRadius, with eraserRadius = 12 / scale and
\* distance = sqrt((pointX - x)^2 + (pointY - y)^2); both sides are >= 0,
\* so the test is the comparison of the squares times scale.n^2
IsInEraser(pointX, pointY, x, y, scale) ==
    ((pointX - x) * (pointX - x) + (pointY - y) * (pointY - y)) * scale.n * scale.n
        <= 144 * scale.d * scale.d

\* The state of the loop over one line's points
WalkInit ==
    [segments |-> <<>>, currentSegment |-> <<>>, isInEraser |-> FALSE,
     hasChanges |-> FALSE]

\* An iteration that does not close the open segment on entering the eraser
WalkStep_open(st, pointX, pointY, x, y, scale) ==
    IF ~IsInEraser(pointX, pointY, x, y, scale)
    THEN [st EXCEPT !.currentSegment = @ \o <<pointX, pointY>>,
                    !.isInEraser = FALSE]
    ELSE [st EXCEPT !.isInEraser = TRUE, !.hasChanges = TRUE]

\* One iteration of the loop, for the point (pointX, pointY)
WalkStep(st, pointX, pointY, x, y, scale) ==
    LET wasInEraser == st.isInEraser
        nowIn == IsInEraser(pointX, pointY, x, y, scale)
    IN  IF ~nowIn
        THEN IF wasInEraser /\ Len(st.currentSegment) > 0
             THEN [st EXCEPT !.segments = Append(@, st.currentSegment),
                             !.currentSegment = <<pointX, pointY>>,
                             !.isInEraser = FALSE]
             ELSE [st EXCEPT !.currentSegment = @ \o <<pointX, pointY>>,
                             !.isInEraser = FALSE]
        ELSE IF ~wasInEraser /\ Len(st.currentSegment) > 0
             THEN [st EXCEPT !.segments = Append(@, st.currentSegment),
                             !.currentSegment = <<>>,
                             !.isInEraser = TRUE,
                             !.hasChanges = TRUE]
             ELSE [st EXCEPT !.isInEraser = TRUE, !.hasChanges = TRUE]

\* for (let i = 0; i < line.points.length; i += 2), i being the 1-based
\* position of pointX in points
RECURSIVE Walk(_, _, _, _, _, _)
Walk(points, i, st, x, y, scale) ==
    IF i > Len(points)
    THEN st
    ELSE Walk(points, i + 2,
              WalkStep(st, points[i], points[i + 1], x, y, scale), x, y, scale)

\* The segments of one line after the loop and the trailing flush
Segments(points, x, y, scale) ==
    LET st == Walk(points, 1, WalkInit, x, y, scale)
    IN  IF Len(st.currentSegment) > 0
        THEN Append(st.segments, st.currentSegment)
        ELSE st.segments

\* A filter that keeps the segments of a single point
SegmentKept_any(segment) == Len(segment) >= 2

\* segments.forEach: a segment becomes a line when segment.length >= 4
SegmentKept(segment) == Len(segment) >= 4

RECURSIVE Fragments(_, _, _)
Fragments(segments, k, line) ==
    IF k > Len(segments)
    THEN <<>>
    ELSE (IF SegmentKept(segments[k])
          THEN <<LineData(segments[k], line.tool, line.color, line.lineWidth)>>
          ELSE <<>>) \o Fragments(segments, k + 1, line)

\* The guard at the head of lines.forEach: such a line is pushed unchanged
PassedThrough(line) == Len(line.points) < 4

\* What one line contributes to newLines
EraseLine(line, x, y, scale) ==
    IF PassedThrough(line)
    THEN <<line>>
    ELSE Fragments(Segments(line.points, x, y, scale), 1, line)

\* Whether one line sets hasChanges
LineChanged(line, x, y, scale) ==
    /\ ~PassedThrough(line)
    /\ Walk(line.points, 1, WalkInit, x, y, scale).hasChanges

RECURSIVE EraseLines(_, _, _, _, _)
EraseLines(ls, k, x, y, scale) ==
    IF k > Len(ls)
    THEN <<>>
    ELSE EraseLine(ls[k], x, y, scale) \o EraseLines(ls, k + 1, x, y, scale)

\* isTouching of a rectangle: the four comparisons against shape.x,
\* shape.x + shape.width, shape.y, shape.y + shape.height, each moved out by
\* eraserRadius = 12 * scale.d / scale.n (scale.n > 0)
RectTouching(shape, x, y, scale) ==
    /\ (x - shape.x) * scale.n >= -(12 * scale.d)
    /\ (x - shape.x - shape.width) * scale.n <= 12 * scale.d
    /\ (y - shape.y) * scale.n >= -(12 * scale.d)
    /\ (y - shape.y - shape.height) * scale.n <= 12 * scale.d

\* distance <= radius + eraserRadius of a circle, radius = sqrt(w^2 + h^2),
\* distance = sqrt(dx^2 + dy^2): with A = distance^2, B = radius^2 and
\* r = 12 * scale.d / scale.n it is A - B - r^2 <= 2 * r * sqrt(B)
CircleTouching(shape, x, y, scale) ==
    LET A == (shape.x - x) * (shape.x - x) + (shape.y - y) * (shape.y - y)
        B == shape.width * shape.width + shape.height * shape.height
        L == (A - B) * scale.n * scale.n - 144 * scale.d * scale.d
    IN  \/ L <= 0
        \/ L * L <= 576 * scale.d * scale.d * scale.n * scale.n * B

\* The shapes.filter callback returns false for a removed shape
ShapeRemoved(shape, x, y, scale) ==
    IF shape.type = "rectangle"
    THEN RectTouching(shape, x, y, scale)
    ELSE IF shape.type = "circle"
         THEN CircleTouching(shape, x, y, scale)
         ELSE FALSE

EraseShapes(ss, x, y, scale) ==
    SelectSeq(ss, LAMBDA shape : ~ShapeRemoved(shape, x, y, scale))

\* hasChanges at the end of eraseAtPoint
HasChanges(ls, ss, x, y, scale) ==
    \/ \E k \in 1..Len(ls) : LineChanged(ls[k], x, y, scale)
    \/ \E k \in 1..Len(ss) : ShapeRemoved(ss[k], x, y, scale)

\* eraseAtPoint(x, y): the new values of the board, the history and the
\* events emitted
eraseAtPoint(x, y) ==
    LET newLines == EraseLines(lines, 1, x, y, viewport.scale)
        newShapes == EraseShapes(shapes, x, y, viewport.scale)
    IN  IF HasChanges(lines, shapes, x, y, viewport.scale)
        THEN /\ lines' = newLines
             /\ shapes' = newShapes
             /\ addToHistory(newLines, newShapes)
             /\ emitted' = <<[event |-> "updateBoard", lines |-> newLines,
                              shapes |-> newShapes]>>
        ELSE /\ UNCHANGED boardVars
             /\ emitted' = <<>>

----------------------------------------------------------------------------
(* Coordinates *)

\* screenToWorld(screenX, screenY); the division is exact for the events the
\* specifications draw (see EventAt)
screenToWorld(screenX, screenY) ==
    Pos(((screenX - viewport.x) * viewport.scale.d) \div viewport.scale.n,
        ((screenY - viewport.y) * viewport.scale.d) \div viewport.scale.n)

\* worldToScreen(worldX, worldY)
worldToScreen(worldX, worldY) ==
    Pos((worldX * viewport.scale.n) \div viewport.scale.d + viewport.x,
        (worldY * viewport.scale.n) \div viewport.scale.d + viewport.y)

\* getMousePos(e): the canvas fills the window, rect.left = rect.top = 0
getMousePos(e) == screenToWorld(e.clientX, e.clientY)

\* The mouse event of the given button with the pointer over the world
\* position p
EventAt(button, p) ==
    [button |-> button, clientX |-> worldToScreen(p.x, p.y).x,
     clientY |-> worldToScreen(p.x, p.y).y]

\* The pointer positions whose screen coordinates are whole numbers
OnPixel(p) ==
    /\ (p.x * viewport.scale.n) % viewport.scale.d = 0
    /\ (p.y * viewport.scale.n) % viewport.scale.d = 0

----------------------------------------------------------------------------
(* Pointer handlers *)

\* The tail is pushed again instead of being replaced
ReplaceLast_append(seq, updated) == Append(seq, updated)

\* [...prev.slice(0, -1), updated]
ReplaceLast(seq, updated) == Append(SubSeq(seq, 1, Len(seq) - 1), updated)

handleMouseDown(e) ==
    LET pos == getMousePos(e)
    IN  /\ lastOp' = Op("handleMouseDown", pos.x, pos.y)
        /\ UNCHANGED <<toolVars, viewport>>
        /\ IF e.button # 0
           THEN UNCHANGED <<boardVars, gestureVars>> /\ emitted' = <<>>
           ELSE IF selectedTool = "pan"
           THEN /\ isPanning' = TRUE
                /\ lastPanPos' = Pos(e.clientX, e.clientY)
                /\ UNCHANGED <<boardVars, isDrawingRef, startPos>>
                /\ emitted' = <<>>
           ELSE /\ isDrawingRef' = TRUE
                /\ startPos' = pos
                /\ UNCHANGED <<isPanning, lastPanPos>>
                /\ IF selectedTool = "pen"
                   THEN /\ lines' = Append(lines,
                               LineData(<<pos.x, pos.y>>, "pen", selectedColor,
                                        selectedLineWidth))
                        /\ UNCHANGED <<shapes, history, historyIndex>>
                        /\ emitted' = <<>>
                   ELSE IF selectedTool = "eraser"
                   THEN eraseAtPoint(pos.x, pos.y)
                   ELSE IF selectedTool \in {"rectangle", "circle"}
                   THEN /\ shapes' = Append(shapes,
                               ShapeData(selectedTool, pos.x, pos.y, 0, 0))
                        /\ UNCHANGED <<lines, history, historyIndex>>
                        /\ emitted' = <<>>
                   ELSE UNCHANGED boardVars /\ emitted' = <<>>

handleMouseMove(e) ==
    LET pos == getMousePos(e)
    IN  /\ lastOp' = Op("handleMouseMove", pos.x, pos.y)
        /\ UNCHANGED <<toolVars, isPanning, isDrawingRef, startPos>>
        /\ IF isPanning /\ lastPanPos # Null
           THEN /\ viewport' = [viewport EXCEPT
                        !.x = @ + (e.clientX - lastPanPos.x),
                        !.y = @ + (e.clientY - lastPanPos.y)]
                /\ lastPanPos' = Pos(e.clientX, e.clientY)
                /\ UNCHANGED boardVars
                /\ emitted' = <<>>
           ELSE /\ UNCHANGED <<viewport, lastPanPos>>
                /\ IF ~isDrawingRef \/ startPos = Null
                   THEN UNCHANGED boardVars /\ emitted' = <<>>
                   ELSE IF selectedTool = "pen"
                   THEN /\ lines' =
                             IF Len(lines) = 0
                             THEN lines
                             ELSE ReplaceLast(lines,
                                    [lines[Len(lines)] EXCEPT
                                        !.points = @ \o <<pos.x, pos.y>>])
                        /\ UNCHANGED <<shapes, history, historyIndex>>
                        /\ emitted' = <<>>
                   ELSE IF selectedTool = "eraser"
                   THEN eraseAtPoint(pos.x, pos.y)
                   ELSE IF selectedTool \in {"rectangle", "circle"}
                   THEN /\ shapes' =
                             IF Len(shapes) = 0
                             THEN shapes
                             ELSE ReplaceLast(shapes,
                                    [shapes[Len(shapes)] EXCEPT
                                        !.width = pos.x - startPos.x,
                                        !.height = pos.y - startPos.y])
                        /\ UNCHANGED <<lines, history, historyIndex>>
                        /\ emitted' = <<>>
                   ELSE UNCHANGED boardVars /\ emitted' = <<>>

\* The test of handleMouseUp on the last stroke
StrokeCommitted(lastStroke) == Len(lastStroke.points) > 0

\* handleMouseUp, also bound to onMouseLeave
handleMouseUp ==
    /\ lastOp' = Op("handleMouseUp", 0, 0)
    /\ UNCHANGED <<toolVars, viewport, startPos, lines, shapes>>
    /\ IF isPanning
       THEN /\ isPanning' = FALSE
            /\ lastPanPos' = Null
            /\ UNCHANGED <<isDrawingRef, history, historyIndex>>
            /\ emitted' = <<>>
       ELSE /\ UNCHANGED <<isPanning, lastPanPos>>
            /\ IF ~isDrawingRef
               THEN UNCHANGED <<isDrawingRef, history, historyIndex>>
                    /\ emitted' = <<>>
               ELSE /\ isDrawingRef' = FALSE
                    /\ IF /\ selectedTool = "pen"
                          /\ Len(lines) > 0
                          /\ StrokeCommitted(lines[Len(lines)])
                       THEN /\ emitted' = <<[event |-> "draw",
                                             strokeData |-> lines[Len(lines)]]>>
                            /\ addToHistory(lines, shapes)
                       ELSE IF /\ selectedTool \in {"rectangle", "circle"}
                               /\ Len(shapes) > 0
                       THEN /\ emitted' = <<[event |-> "draw",
                                             strokeData |-> shapes[Len(shapes)]]>>
                            /\ addToHistory(lines, shapes)
                       ELSE UNCHANGED <<history, historyIndex>> /\ emitted' = <<>>

----------------------------------------------------------------------------
(* Toolbar *)

setSelectedTool(tool) ==
    /\ selectedTool' = tool
    /\ lastOp' = Op("setSelectedTool", 0, 0)
    /\ emitted' = <<>>
    /\ UNCHANGED <<boardVars, selectedColor, selectedLineWidth, viewport, gestureVars>>

\* if (historyIndex > 0)
CanUndo == historyIndex > 0

\* if (historyIndex < history.length - 1)
CanRedo == historyIndex < Len(history) - 1

\* An undo that stays on the current snapshot
UndoIndex_stay == historyIndex

\* The index undo moves to
UndoIndex == historyIndex - 1

\* The index redo moves to
RedoIndex == historyIndex + 1

\* The body of undo and of redo once the index is chosen
ApplyHistory(newIndex) ==
    /\ lines' = history[newIndex + 1].lines
    /\ shapes' = history[newIndex + 1].shapes
    /\ historyIndex' = newIndex
    /\ UNCHANGED history
    /\ emitted' = <<[event |-> "updateBoard",
                     lines |-> history[newIndex + 1].lines,
                     shapes |-> history[newIndex + 1].shapes]>>

undo ==
    /\ lastOp' = Op("undo", 0, 0)
    /\ UNCHANGED <<toolVars, viewport, gestureVars>>
    /\ IF CanUndo
       THEN ApplyHistory(UndoIndex)
       ELSE UNCHANGED boardVars /\ emitted' = <<>>

\* A redo that broadcasts the board also when there is nothing to redo
redo_always ==
    /\ lastOp' = Op("redo", 0, 0)
    /\ UNCHANGED <<toolVars, viewport, gestureVars>>
    /\ IF CanRedo
       THEN ApplyHistory(RedoIndex)
       ELSE /\ UNCHANGED boardVars
            /\ emitted' = <<[event |-> "updateBoard", lines |-> lines,
                             shapes |-> shapes]>>

redo ==
    /\ lastOp' = Op("redo", 0, 0)
    /\ UNCHANGED <<toolVars, viewport, gestureVars>>
    /\ IF CanRedo
       THEN ApplyHistory(RedoIndex)
       ELSE UNCHANGED boardVars /\ emitted' = <<>>

\* What clearCanvas and the clearBoard handler set
ClearedHistory == <<EmptySnapshot>>

clearCanvas ==
    /\ lastOp' = Op("clearCanvas", 0, 0)
    /\ lines' = <<>>
    /\ shapes' = <<>>
    /\ history' = ClearedHistory
    /\ historyIndex' = 0
    /\ emitted' = <<[event |-> "clearBoard"]>>
    /\ UNCHANGED <<toolVars, viewport, gestureVars>>

----------------------------------------------------------------------------
(* Inbound socket events.  A payload is [isArray |-> TRUE, value |-> <<..>>] *)
(* for a JSON array and a record of its fields for a JSON object.          *)

\* data.lines || [] and data.shapes || []
FieldOrEmpty(data, field) ==
    IF field \in DOMAIN data THEN data[field] ELSE <<>>

\* A loadBoard that takes the loaded board as the base of the history
onLoadBoard_base(data) ==
    LET newLines == IF data.isArray THEN data.value ELSE FieldOrEmpty(data, "lines")
        newShapes == IF data.isArray THEN <<>> ELSE FieldOrEmpty(data, "shapes")
    IN  /\ lastOp' = Op("loadBoard", 0, 0)
        /\ lines' = newLines
        /\ shapes' = newShapes
        /\ history' = <<Snapshot(newLines, newShapes),
                        Snapshot(newLines, newShapes)>>
        /\ historyIndex' = 1
        /\ emitted' = <<>>
        /\ UNCHANGED <<toolVars, viewport, gestureVars>>

\* socket.on("loadBoard")
onLoadBoard(data) ==
    LET newLines == IF data.isArray THEN data.value ELSE FieldOrEmpty(data, "lines")
        newShapes == IF data.isArray THEN <<>> ELSE FieldOrEmpty(data, "shapes")
    IN  /\ lastOp' = Op("loadBoard", 0, 0)
        /\ lines' = newLines
        /\ shapes' = newShapes
        /\ history' = <<EmptySnapshot, Snapshot(newLines, newShapes)>>
        /\ historyIndex' = 1
        /\ emitted' = <<>>
        /\ UNCHANGED <<toolVars, viewport, gestureVars>>

\* (data as DrawEnvelope).strokeData ? data.strokeData : data
DrawPayload(data) ==
    IF "strokeData" \in DOMAIN data THEN data.strokeData ELSE data

\* (payload as LineData).points
IsStroke(payload) == "points" \in DOMAIN payload

\* payload.type === "rectangle" || payload.type === "circle"
IsShape(payload) ==
    /\ "type" \in DOMAIN payload
    /\ payload.type \in {"rectangle", "circle"}

\* setLines((prev) => [...prev, payload]) when the payload has points
DrawnLines(ls, data) ==
    IF IsStroke(DrawPayload(data)) THEN Append(ls, DrawPayload(data)) ELSE ls

\* setShapes((prev) => [...prev, payload]) when the payload is a shape
DrawnShapes(ss, data) ==
    IF ~IsStroke(DrawPayload(data)) /\ IsShape(DrawPayload(data))
    THEN Append(ss, DrawPayload(data))
    ELSE ss

\* A draw handler that sends the stroke it applied back to the relay
onDraw_echo(data) ==
    /\ lastOp' = Op("draw", 0, 0)
    /\ lines' = DrawnLines(lines, data)
    /\ shapes' = DrawnShapes(shapes, data)
    /\ emitted' = <<[event |-> "draw", strokeData |-> DrawPayload(data)]>>
    /\ UNCHANGED <<history, historyIndex, toolVars, viewport, gestureVars>>

\* socket.on("draw")
onDraw(data) ==
    /\ lastOp' = Op("draw", 0, 0)
    /\ lines' = DrawnLines(lines, data)
    /\ shapes' = DrawnShapes(shapes, data)
    /\ emitted' = <<>>
    /\ UNCHANGED <<history, historyIndex, toolVars, viewport, gestureVars>>


\* A clearBoard handler that empties the board and keeps the history
onClearBoard_keep ==
    /\ lastOp' = Op("clearBoard", 0, 0)
    /\ lines' = <<>>
    /\ shapes' = <<>>
    /\ emitted' = <<>>
    /\ UNCHANGED <<history, historyIndex, toolVars, viewport, gestureVars>>

\* socket.on("clearBoard")
onClearBoard ==
    /\ lastOp' = Op("clearBoard", 0, 0)
    /\ lines' = <<>>
    /\ shapes' = <<>>
    /\ history' = ClearedHistory
    /\ historyIndex' = 0
    /\ emitted' = <<>>
    /\ UNCHANGED <<toolVars, viewport, gestureVars>>

\* The value undefined where a list is expected: it is no LineData[] and no
\* ShapeData[] (no element of those has this field)
Undefined == <<[undefined |-> TRUE]>>

\* The destructuring ({ lines: newLines, shapes: newShapes }) of the payload
Destructured(data, field) ==
    IF field \in DOMAIN data THEN data[field] ELSE Undefined

\* An updateBoard handler that adds the payload to the board
onUpdateBoard_merge(data) ==
    /\ lastOp' = Op("updateBoard", 0, 0)
    /\ lines' = lines \o Destructured(data, "lines")
    /\ shapes' = shapes \o Destructured(data, "shapes")
    /\ emitted' = <<>>
    /\ UNCHANGED <<history, historyIndex, toolVars, viewport, gestureVars>>

\* socket.on("updateBoard")
onUpdateBoard(data) ==
    /\ lastOp' = Op("updateBoard", 0, 0)
    /\ lines' = Destructured(data, "lines")
    /\ shapes' = Destructured(data, "shapes")
    /\ emitted' = <<>>
    /\ UNCHANGED <<history, historyIndex, toolVars, viewport, gestureVars>>

----------------------------------------------------------------------------
(* The whiteboard of one client: local gestures and toolbar clicks, and the *)
(* board events the relay delivers                                         *)

Black == "#000000"

Stroke2 == LineData(<<0, 0, 10, 0>>, "pen", Black, 2)

Rect1 == ShapeData("rectangle", 30, 0, 10, 10)

LoadBoardPayloads ==
    { [isArray |-> TRUE, value |-> <<Stroke2>>],
      [isArray |-> FALSE, lines |-> <<Stroke2>>, shapes |-> <<Rect1>>],
      [isArray |-> FALSE] }

DrawPayloads ==
    { [roomId |-> "room", strokeData |-> Stroke2],
      Rect1,
      [type |-> "triangle", x |-> 0, y |-> 0] }

UpdateBoardPayloads ==
    { [roomId |-> "room", lines |-> <<Stroke2>>, shapes |-> <<Rect1>>] }

InitCanvas ==
    /\ lines = <<>>
    /\ shapes = <<>>
    /\ history = <<EmptySnapshot>>
    /\ historyIndex = 0
    /\ selectedTool = "pen"
    /\ selectedColor = Black
    /\ selectedLineWidth = 2
    /\ viewport = [x |-> 0, y |-> 0, scale |-> Rat(1, 1)]
    /\ isPanning = FALSE
    /\ isDrawingRef = FALSE
    /\ startPos = Null
    /\ lastPanPos = Null
    /\ emitted = <<>>
    /\ lastOp = [op |-> "init", x |-> 0, y |-> 0, index |-> 0, length |-> 1,
                 scale |-> Rat(1, 1), present |-> 0]

\* No timer is pending: the two intervals are not set, no disconnect timeout
\* of the mounted component (grace) and none of a component that has been
\* torn down since (orphan) is waiting
NoTimers == [heartbeat |-> 0, sweep |-> 0, grace |-> 0, orphan |-> 0]

\* The connection state after construction: useState(true) in
\* WhiteboardCanvas, useState(false) in RoomPage, and the socket that io()
\* has created a moment ago and that has not connected yet
InitConnection ==
    /\ isConnected = TRUE
    /\ pageIsConnected = FALSE
    /\ socketConnected = FALSE
    /\ timers = NoTimers

\* The presence state after construction, before the join effect has run,
\* and an empty network
InitOffCanvas ==
    /\ users = <<>>
    /\ currentUser = Null
    /\ storage = Null
    /\ now = 0
    /\ mounted = TRUE
    /\ wire = <<>>
    /\ peer = [lines |-> <<>>, shapes |-> <<>>, history |-> <<EmptySnapshot>>,
               historyIndex |-> 0]
    /\ inbox = [events |-> <<>>, read |-> 0]
    /\ InitConnection

\* The steps of the canvas leave the presence state and the network alone
OffCanvas == UNCHANGED <<presenceVars, linkVars>>

Init == InitCanvas /\ InitOffCanvas

\* The toolbar is outside the canvas: the pointer reaches it only through
\* onMouseLeave, which ends the gesture
AtToolbar == ~isDrawingRef /\ ~isPanning

\* Bounds on the growth of the board and of the history
RoomForLine == Len(lines) < MaxLines
RoomForShape == Len(shapes) < MaxShapes
RoomForPoint == Len(lines) > 0 => Len(lines[Len(lines)].points) < 2 * MaxPts
RoomForHistory == historyIndex + 2 <= MaxHist

PointerDown ==
    \E p \in PointerPositions :
        /\ OnPixel(p)
        /\ ~isDrawingRef /\ ~isPanning
        /\ selectedTool = "pen" => RoomForLine
        /\ selectedTool \in {"rectangle", "circle"} => RoomForShape
        /\ selectedTool = "eraser" => RoomForHistory
        /\ handleMouseDown(EventAt(0, p))
        /\ OffCanvas

PointerMove ==
    \E p \in PointerPositions :
        /\ OnPixel(p)
        /\ selectedTool = "pen" => RoomForPoint
        /\ selectedTool = "eraser" => RoomForHistory
        /\ handleMouseMove(EventAt(0, p))
        /\ OffCanvas

PointerUp == RoomForHistory /\ handleMouseUp /\ OffCanvas

PickTool ==
    \E tool \in {"pen", "eraser", "rectangle"} : AtToolbar /\ setSelectedTool(tool) /\ OffCanvas

Undo == AtToolbar /\ undo /\ OffCanvas

Redo == AtToolbar /\ redo /\ OffCanvas

Clear == AtToolbar /\ clearCanvas /\ OffCanvas

LoadBoard == \E data \in LoadBoardPayloads : onLoadBoard(data) /\ OffCanvas

Draw ==
    \E data \in DrawPayloads :
        /\ IsStroke(DrawPayload(data)) => RoomForLine
        /\ IsShape(DrawPayload(data)) => RoomForShape
        /\ onDraw(data)
        /\ OffCanvas

ClearBoard == onClearBoard /\ OffCanvas

UpdateBoard ==
    \E data \in UpdateBoardPayloads : onUpdateBoard(data) /\ OffCanvas

Next ==
    \/ PointerDown
    \/ PointerMove
    \/ PointerUp
    \/ PickTool
    \/ Undo
    \/ Redo
    \/ Clear
    \/ LoadBoard
    \/ Draw
    \/ ClearBoard
    \/ UpdateBoard

Spec == Init /\ [][Next]_vars

----------------------------------------------------------------------------
(* The eraser on the boards a loadBoard can deliver: the board is drawn     *)
(* from a set of strokes and shapes, the zoom from a set of scales, and the *)
(* eraser tool is swept over it                                            *)

MaxErasePts == 5

\* The world points the strokes run through
StrokePoints == {Pos(0, 0), Pos(10, 0), Pos(20, 0)}

\* The flat points arrays of n points
PointArrays(n) ==
    { [i \in 1..(2 * n) |->
          IF i % 2 = 1 THEN f[(i + 1) \div 2].x ELSE f[i \div 2].y] :
      f \in [1..n -> StrokePoints] }

EraseStrokes ==
    { LineData(pts, "pen", Black, 2) :
        pts \in UNION { PointArrays(n) : n \in 1..MaxErasePts } }

RedStroke == LineData(<<10, 0, 20, 0>>, "pen", "#FF0000", 5)

\* The strokes of at most two points
ShortStrokes == { s \in EraseStrokes : Len(s.points) <= 4 }

EraseLineSets ==
    { <<s>> : s \in EraseStrokes } \cup { <<s, RedStroke>> : s \in ShortStrokes }

Rect2 == ShapeData("rectangle", 15, 0, 10, 10)

Circle1 == ShapeData("circle", 25, 0, 3, 4)

\* A rectangle dragged up and to the left from (25, 10) to (15, 0):
\* handleMouseMove stores the signed extent
RectLeft == ShapeData("rectangle", 25, 10, -10, -10)

EraseShapeSets == { <<>>, <<Rect2>>, <<Circle1>>, <<RectLeft>> }

\* viewport.scale 1 and 4: eraser radius 12 and 3
EraseScales == { Rat(1, 1), Rat(4, 1) }

\* The world positions the eraser is put down at
ErasePositions == {Pos(0, 0), Pos(10, 0), Pos(10, 5)}

InitErase ==
    /\ lines \in EraseLineSets
    /\ shapes \in IF lines[1] \in ShortStrokes THEN EraseShapeSets ELSE { <<>> }
    /\ history = <<EmptySnapshot, Snapshot(lines, shapes)>>
    /\ historyIndex = 1
    /\ selectedTool = "eraser"
    /\ selectedColor = Black
    /\ selectedLineWidth = 2
    /\ viewport \in { [x |-> 0, y |-> 0, scale |-> sc] : sc \in EraseScales }
    /\ isPanning = FALSE
    /\ isDrawingRef = FALSE
    /\ startPos = Null
    /\ lastPanPos = Null
    /\ emitted = <<>>
    /\ lastOp = [op |-> "loadBoard", x |-> 0, y |-> 0, index |-> 0, length |-> 1,
                 scale |-> viewport.scale, present |-> 0]
    /\ InitOffCanvas

EraseDown ==
    \E p \in ErasePositions :
        /\ OnPixel(p)
        /\ ~isDrawingRef
        /\ RoomForHistory
        /\ handleMouseDown(EventAt(0, p))
        /\ OffCanvas

EraseMove ==
    \E p \in ErasePositions :
        /\ OnPixel(p)
        /\ RoomForHistory
        /\ handleMouseMove(EventAt(0, p))
        /\ OffCanvas

EraseUp == handleMouseUp /\ OffCanvas

NextErase ==
    \/ EraseDown
    \/ EraseMove
    \/ EraseUp

SpecErase == InitErase /\ [][NextErase]_vars

----------------------------------------------------------------------------
(* The view: wheel zoom, pan and reset *)

MaxZoomDepth == 3
MaxPan == 40

RECURSIVE GCD(_, _)
GCD(a, b) == IF b = 0 THEN a ELSE GCD(b, a % b)

\* The fraction num / den in lowest terms
Lowest(num, den) == Rat(num \div GCD(num, den), den \div GCD(num, den))

RatLeq(a, b) == a.n * b.d <= b.n * a.d

RatMin(a, b) == IF RatLeq(a, b) THEN a ELSE b

RatMax(a, b) == IF RatLeq(a, b) THEN b ELSE a

MinScale == Rat(1, 10)

MaxScale == Rat(5, 1)

\* A clamp that has lost its Math.min
ClampScale_nomax(s) == RatMax(MinScale, s)

\* Math.max(0.1, Math.min(5, s))
ClampScale(s) == RatMax(MinScale, RatMin(MaxScale, s))

\* delta = e.deltaY > 0 ? 1 - zoomFactor : 1 + zoomFactor; prev.scale * delta,
\* clamped
NewScale(prev, e) ==
    LET delta == IF e.deltaY > 0 THEN Rat(9, 10) ELSE Rat(11, 10)
        c == ClampScale(Rat(prev.scale.n * delta.n, prev.scale.d * delta.d))
    IN  Lowest(c.n, c.d)

\* newScale / prev.scale
ScaleRatio(prev, newScale) ==
    Lowest(newScale.n * prev.scale.d, newScale.d * prev.scale.n)

\* mouse - (mouse - prev) * scaleRatio
ZoomOffset(mouse, prevOffset, scaleRatio) ==
    mouse - ((mouse - prevOffset) * scaleRatio.n) \div scaleRatio.d

\* handleWheel(e): the canvas fills the window, rect.left = rect.top = 0
handleWheel(e) ==
    LET mouseX == e.clientX
        mouseY == e.clientY
        newScale == NewScale(viewport, e)
        scaleRatio == ScaleRatio(viewport, newScale)
    IN  /\ lastOp' = Op("handleWheel", mouseX, mouseY)
        /\ viewport' = [x |-> ZoomOffset(mouseX, viewport.x, scaleRatio),
                        y |-> ZoomOffset(mouseY, viewport.y, scaleRatio),
                        scale |-> newScale]
        /\ emitted' = <<>>
        /\ UNCHANGED <<boardVars, toolVars, gestureVars>>

resetView ==
    /\ lastOp' = Op("resetView", 0, 0)
    /\ viewport' = [x |-> 0, y |-> 0, scale |-> Rat(1, 1)]
    /\ emitted' = <<>>
    /\ UNCHANGED <<boardVars, toolVars, gestureVars>>

\* Screen positions of the pointer over the canvas
ScreenPoints == {Pos(0, 0), Pos(20, 0), Pos(0, 20)}

\* The view starts at scale 1 or at one of the two bounds, which seventeen
\* wheel steps in (1.1^17 > 5) and twenty-two out (0.9^22 < 0.1) at the
\* origin reach
InitView ==
    /\ lines = <<>>
    /\ shapes = <<>>
    /\ history = <<EmptySnapshot>>
    /\ historyIndex = 0
    /\ selectedTool = "pan"
    /\ selectedColor = Black
    /\ selectedLineWidth = 2
    /\ viewport \in { [x |-> 0, y |-> 0, scale |-> sc] : sc \in {Rat(1, 1), MaxScale, MinScale} }
    /\ isPanning = FALSE
    /\ isDrawingRef = FALSE
    /\ startPos = Null
    /\ lastPanPos = Null
    /\ emitted = <<>>
    /\ lastOp = [op |-> "setSelectedTool", x |-> 0, y |-> 0, index |-> 0,
                 length |-> 1, scale |-> viewport.scale, present |-> 0]
    /\ InitOffCanvas

RECURSIVE Pow10(_)
Pow10(k) == IF k = 0 THEN 1 ELSE 10 * Pow10(k - 1)

\* The wheel events whose new offsets are whole numbers
WheelOnPixel(e) ==
    LET scaleRatio == ScaleRatio(viewport, NewScale(viewport, e))
    IN  /\ ((e.clientX - viewport.x) * scaleRatio.n) % scaleRatio.d = 0
        /\ ((e.clientY - viewport.y) * scaleRatio.n) % scaleRatio.d = 0

InPanRange(v) ==
    /\ -MaxPan <= v.x /\ v.x <= MaxPan
    /\ -MaxPan <= v.y /\ v.y <= MaxPan

ViewDown ==
    \E p \in ScreenPoints :
        /\ ~isPanning
        /\ handleMouseDown([button |-> 0, clientX |-> p.x, clientY |-> p.y])
        /\ OffCanvas

ViewMove ==
    \E p \in ScreenPoints :
        /\ handleMouseMove([button |-> 0, clientX |-> p.x, clientY |-> p.y])
        /\ InPanRange(viewport')
        /\ OffCanvas

ViewUp == handleMouseUp /\ OffCanvas

Wheel ==
    \E p \in ScreenPoints, deltaY \in {-100, 100} :
        LET e == [clientX |-> p.x, clientY |-> p.y, deltaY |-> deltaY]
        IN  /\ viewport.scale.d < Pow10(MaxZoomDepth)
            /\ WheelOnPixel(e)
            /\ handleWheel(e)
            /\ InPanRange(viewport')
            /\ OffCanvas

ResetView == AtToolbar /\ resetView /\ OffCanvas

NextView ==
    \/ ViewDown
    \/ ViewMove
    \/ ViewUp
    \/ Wheel
    \/ ResetView

SpecView == InitView /\ [][NextView]_vars

----------------------------------------------------------------------------
(* Two clients of a room: this client draws, the relay passes its events on *)
(* in the order they were emitted, and the peer applies them with the same  *)
(* socket handlers                                                         *)

MaxWire == 2

\* The peer's socket.on("draw")
peerDraw(data) ==
    peer' = [peer EXCEPT !.lines = DrawnLines(@, data),
                         !.shapes = DrawnShapes(@, data)]

PairPositions == {Pos(0, 0), Pos(10, 0)}

\* socket.emit: the events of the handler go on the wire
Sent ==
    /\ wire' = wire \o emitted'
    /\ Len(wire') <= MaxWire
    /\ UNCHANGED <<presenceVars, peer, inbox, connVars>>

PairDown ==
    \E p \in PairPositions :
        /\ ~isDrawingRef
        /\ selectedTool = "pen" => RoomForLine
        /\ selectedTool = "rectangle" => RoomForShape
        /\ handleMouseDown(EventAt(0, p))
        /\ Sent

PairMove ==
    \E p \in PairPositions :
        /\ selectedTool = "pen" => RoomForPoint
        /\ handleMouseMove(EventAt(0, p))
        /\ Sent

PairUp == RoomForHistory /\ handleMouseUp /\ Sent

PairPickTool == \E tool \in {"pen", "rectangle"} : AtToolbar /\ setSelectedTool(tool) /\ Sent

\* The relay delivers the oldest event to the peer
PairDeliver ==
    /\ wire # <<>>
    /\ Head(wire).event = "draw"
    /\ peerDraw(Head(wire))
    /\ wire' = Tail(wire)
    /\ UNCHANGED <<canvasVars, emitted, lastOp, presenceVars, inbox, connVars>>

NextPair ==
    \/ PairDown
    \/ PairMove
    \/ PairUp
    \/ PairPickTool
    \/ PairDeliver

SpecPair == Init /\ [][NextPair]_vars

----------------------------------------------------------------------------
(* The board events of the relay: the events the relay sent are kept in    *)
(* order, and the socket handlers take them one at a time                  *)

MaxInbox == 3

\* Two boards other clients broadcast after an undo, a redo or an erase
BoardA == [roomId |-> "room", lines |-> <<Stroke2>>, shapes |-> <<Rect1>>]

BoardB == [roomId |-> "room", lines |-> <<RedStroke>>, shapes |-> <<>>]

\* The board events, the updateBoard payloads with and without their lists
InboundEvents ==
    { [event |-> "draw", data |-> d] : d \in DrawPayloads }
    \cup { [event |-> "updateBoard", data |-> d] :
                d \in { BoardA, BoardB,
                        [roomId |-> "room", lines |-> <<Stroke2>>],
                        [roomId |-> "room", shapes |-> <<Rect1>>],
                        [roomId |-> "room"] } }
    \cup { [event |-> "loadBoard", data |-> d] : d \in LoadBoardPayloads }
    \cup { [event |-> "clearBoard", data |-> Null] }

\* redraw runs lines.forEach and shapes.forEach: a render with either list
\* undefined throws, and no handler runs after it
Rendered == lines # Undefined /\ shapes # Undefined

\* The event the socket hands to its handler next
Arrived(name) ==
    /\ Rendered
    /\ inbox.read < Len(inbox.events)
    /\ inbox.events[inbox.read + 1].event = name

ArrivedData == inbox.events[inbox.read + 1].data

Taken ==
    /\ inbox' = [inbox EXCEPT !.read = @ + 1]
    /\ UNCHANGED <<presenceVars, wire, peer, connVars>>

RelaySends ==
    \E ev \in InboundEvents :
        /\ Len(inbox.events) < MaxInbox
        /\ inbox' = [inbox EXCEPT !.events = Append(@, ev)]
        /\ UNCHANGED <<canvasVars, emitted, lastOp, presenceVars, wire, peer,
                       connVars>>

ReceiveDraw == Arrived("draw") /\ onDraw(ArrivedData) /\ Taken

ReceiveUpdateBoard == Arrived("updateBoard") /\ onUpdateBoard(ArrivedData) /\ Taken

ReceiveLoadBoard == Arrived("loadBoard") /\ onLoadBoard(ArrivedData) /\ Taken

ReceiveClearBoard == Arrived("clearBoard") /\ onClearBoard /\ Taken

NextInbound ==
    \/ RelaySends
    \/ ReceiveDraw
    \/ ReceiveUpdateBoard
    \/ ReceiveLoadBoard
    \/ ReceiveClearBoard

SpecInbound == Init /\ [][NextInbound]_vars

----------------------------------------------------------------------------
(* Presence: the local identity, the users of the room and the staleness   *)
(* sweep.  Strings that the code takes apart are sequences of characters.  *)

MaxTicks == 7
MaxUsers == 2
MaxPresenceInbox == 2

RoomId == "room"

\* `User ${userId.slice(-3)}`
UserName(userId) ==
    <<"User ">> \o SubSeq(userId, IF Len(userId) > 3 THEN Len(userId) - 2 ELSE 1,
                          Len(userId))

\* The record a first join makes
NewUser(userId, randomColor, time) ==
    [id |-> userId, name |-> UserName(userId), color |-> randomColor,
     cursor |-> Null, isActive |-> TRUE, lastSeen |-> time]

\* JSON.stringify and JSON.parse of a User, whose fields are strings,
\* numbers, booleans, null and {x, y}: the text holds the fields as they are
JSONstringify(user) == [json |-> user]

JSONparse(text) == text.json

\* The outcomes of Math.random().toString(36).substr(2, 9)
UserIds == { <<"k", "3", "x", "9">> }

\* userColors[0] and userColors[14]
UserColors == { "#FF6B6B", "#1ABC9C" }

\* A join effect that never reads the stored record
StoredUser_none(item) == Null

\* localStorage.getItem: the stored text, parsed, or null
StoredUser(item) == IF item # Null THEN JSONparse(item) ELSE Null

\* The cleanup of the leave effect, run with the currentUser of the render
\* it was created in
LeaveCleanup(user) ==
    IF user # Null
    THEN [emits |-> <<[event |-> "leaveRoom", roomId |-> RoomId,
                       userId |-> user.id]>>,
          item |-> Null]
    ELSE [emits |-> <<>>, item |-> storage]

\* Mount: the first render, then the user effect (the leave effect of the
\* first render holds currentUser = null, so its cleanup does nothing when
\* the join sets currentUser)
join ==
    \E userId \in UserIds, randomColor \in UserColors :
        LET existingUser == StoredUser(storage)
            newUser == IF existingUser # Null
                       THEN existingUser
                       ELSE NewUser(userId, randomColor, now)
        IN  /\ lastOp' = Op("join", 0, 0)
            /\ storage' = IF existingUser # Null
                          THEN storage
                          ELSE JSONstringify(newUser)
            /\ currentUser' = newUser
            /\ users' = <<newUser>>
            /\ emitted' = <<[event |-> "joinRoom", roomId |-> RoomId,
                             user |-> newUser]>>
            /\ mounted' = TRUE
            /\ UNCHANGED <<canvasVars, now>>

\* updateCursor, the document mousemove listener: currentUser is replaced,
\* so the leave effect is re-created and the cleanup of the previous render
\* (which holds the previous, non-null currentUser) runs
updateCursor(e) ==
    LET worldPos == screenToWorld(e.clientX, e.clientY)
        cleanup == LeaveCleanup(currentUser)
    IN  /\ lastOp' = Op("updateCursor", worldPos.x, worldPos.y)
        /\ currentUser' = [currentUser EXCEPT !.cursor = worldPos]
        /\ emitted' = <<[event |-> "cursorMove", roomId |-> RoomId,
                         userId |-> currentUser.id, cursor |-> worldPos]>>
                      \o cleanup.emits
        /\ storage' = cleanup.item
        /\ UNCHANGED <<canvasVars, users, now, mounted>>

\* Teardown of the component: the cleanup of the leave effect runs with the
\* last currentUser
unmount ==
    LET cleanup == LeaveCleanup(currentUser)
    IN  /\ lastOp' = Op("unmount", 0, 0)
        /\ emitted' = cleanup.emits
        /\ storage' = cleanup.item
        /\ mounted' = FALSE
        /\ UNCHANGED <<canvasVars, users, currentUser, now>>

\* The Leave Room button: the page reloads only if there is a current user
leaveRoomClick ==
    /\ lastOp' = Op("leaveRoomClick", 0, 0)
    /\ IF currentUser # Null
       THEN /\ emitted' = <<[event |-> "leaveRoom", roomId |-> RoomId,
                             userId |-> currentUser.id]>>
            /\ storage' = Null
            /\ mounted' = FALSE
       ELSE /\ emitted' = <<>>
            /\ UNCHANGED <<storage, mounted>>
    /\ UNCHANGED <<canvasVars, users, currentUser, now>>

\* const timeout = 30000
StaleTimeout == 30000

\* The sweep is set to run every 10000 ms
SweepInterval == 10000

\* A sweep that keeps the users seen at most 30 s ago and later ones too
Fresh_late(user, time) == time - user.lastSeen < StaleTimeout + SweepInterval

\* now - user.lastSeen < timeout
Fresh(user, time) == time - user.lastSeen < StaleTimeout

\* The staleness sweep
sweep ==
    /\ lastOp' = Op("sweep", 0, 0)
    /\ users' = SelectSeq(users, LAMBDA user : Fresh(user, now))
    /\ emitted' = <<>>
    /\ UNCHANGED <<canvasVars, currentUser, storage, now, mounted>>

\* { ...u, ...user, isActive: true }
Merged(u, user) ==
    [f \in DOMAIN u \cup DOMAIN user \cup {"isActive"} |->
        IF f = "isActive" THEN TRUE
        ELSE IF f \in DOMAIN user THEN user[f] ELSE u[f]]

\* { ...user, isActive: true }
Activated(user) ==
    [f \in DOMAIN user \cup {"isActive"} |->
        IF f = "isActive" THEN TRUE ELSE user[f]]

\* A userJoined handler that always appends
onUserJoined_append(user) ==
    /\ lastOp' = Op("userJoined", 0, 0)
    /\ users' = Append(users, Activated(user))
    /\ emitted' = <<>>
    /\ UNCHANGED <<canvasVars, currentUser, storage, now, mounted>>

\* socket.on("userJoined")
onUserJoined(user) ==
    /\ lastOp' = Op("userJoined", 0, 0)
    /\ users' = IF \E i \in 1..Len(users) : users[i].id = user.id
                THEN [i \in 1..Len(users) |->
                        IF users[i].id = user.id
                        THEN Merged(users[i], user)
                        ELSE users[i]]
                ELSE Append(users, Activated(user))
    /\ emitted' = <<>>
    /\ UNCHANGED <<canvasVars, currentUser, storage, now, mounted>>

\* socket.on("userLeft")
onUserLeft(userId) ==
    /\ lastOp' = Op("userLeft", 0, 0)
    /\ users' = SelectSeq(users, LAMBDA u : u.id # userId)
    /\ emitted' = <<>>
    /\ UNCHANGED <<canvasVars, currentUser, storage, now, mounted>>

\* A cursorUpdate handler that adds an entry for an id it does not find
onCursorUpdate_upsert(data) ==
    /\ lastOp' = Op("cursorUpdate", 0, 0)
    /\ users' = IF \E i \in 1..Len(users) : users[i].id = data.userId
                THEN users
                ELSE Append(users, [id |-> data.userId, cursor |-> data.cursor,
                                    isActive |-> TRUE, lastSeen |-> now])
    /\ emitted' = <<>>
    /\ UNCHANGED <<canvasVars, currentUser, storage, now, mounted>>

\* socket.on("cursorUpdate")
onCursorUpdate(data) ==
    /\ lastOp' = Op("cursorUpdate", 0, 0)
    /\ users' = [i \in 1..Len(users) |->
                    IF users[i].id = data.userId
                    THEN [f \in DOMAIN users[i]
                              \cup {"cursor", "lastSeen", "isActive"} |->
                            IF f = "cursor" THEN data.cursor
                            ELSE IF f = "lastSeen" THEN now
                            ELSE IF f = "isActive" THEN TRUE
                            ELSE users[i][f]]
                    ELSE users[i]]
    /\ emitted' = <<>>
    /\ UNCHANGED <<canvasVars, currentUser, storage, now, mounted>>

\* socket.on("userList")
onUserList(userList) ==
    /\ lastOp' = Op("userList", 0, 0)
    /\ users' = [i \in 1..Len(userList) |-> Activated(userList[i])]
    /\ emitted' = <<>>
    /\ UNCHANGED <<canvasVars, currentUser, storage, now, mounted>>

\* The record an earlier visit stored, a minute ago
EarlierUser == NewUser(<<"p", "0", "m", "4">>, "#4ECDC4", -60000)

\* Users of other clients, as their clients made them
UserB == NewUser(<<"q", "7", "z", "3">>, "#45B7D1", -5000)

UserC == NewUser(<<"w", "2", "c", "8">>, "#F39C12", -20000)

\* The presence events; the userJoined payloads are a whole User, the same
\* user renamed, inactive and with a cursor, and a user without the optional
\* fields
PresenceEvents ==
    { [event |-> "userJoined", data |-> u] :
          u \in { UserB,
                  [UserB EXCEPT !.name = <<"Bea">>, !.isActive = FALSE,
                                !.cursor = Pos(5, 5)],
                  [id |-> UserC.id, name |-> UserC.name,
                   lastSeen |-> UserC.lastSeen] } }
    \cup { [event |-> "cursorUpdate",
            data |-> [userId |-> UserB.id, cursor |-> Pos(3, 4)]] }
    \cup { [event |-> "userLeft", data |-> UserB.id] }
    \cup { [event |-> "userList", data |-> <<UserC, UserB>>] }

\* The heartbeat period, the step of the clock
TickMs == 5000

\* The page is opened at time 0, with or without a record of an earlier
\* visit to the room
InitPresence ==
    /\ InitCanvas
    /\ users = <<>>
    /\ currentUser = Null
    /\ storage \in {Null, JSONstringify(EarlierUser)}
    /\ now = 0
    /\ mounted = FALSE
    /\ wire = <<>>
    /\ peer = [lines |-> <<>>, shapes |-> <<>>, history |-> <<EmptySnapshot>>,
               historyIndex |-> 0]
    /\ inbox = [events |-> <<>>, read |-> 0]
    /\ InitConnection

\* Disconnect timeouts that may be pending at a time
MaxGrace == 2

\* The other effects of the mount: the board-events effect sets
\* isConnected to socket.connected, the cursor effect (run again once
\* currentUser is set) and the sweep effect set their intervals, and
\* RoomPage starts from useState(false)
MountEffects ==
    /\ isConnected' = socketConnected
    /\ pageIsConnected' = FALSE
    /\ timers' = [timers EXCEPT !.heartbeat = 1, !.sweep = 1]
    /\ UNCHANGED socketConnected

\* The cleanups of the effects: clearInterval for the heartbeat and for the
\* sweep, socket.off for the handlers; the timeouts the disconnect handler
\* has set are not cleared and stay behind
Teardown ==
    /\ timers' = [heartbeat |-> 0, sweep |-> 0, grace |-> 0,
                  orphan |-> timers.orphan + timers.grace]
    /\ UNCHANGED <<isConnected, pageIsConnected, socketConnected>>

\* window.location.reload(): the page, its socket and its timers are gone
Reload ==
    IF currentUser # Null
    THEN /\ isConnected' = TRUE
         /\ pageIsConnected' = FALSE
         /\ socketConnected' = FALSE
         /\ timers' = NoTimers
    ELSE UNCHANGED connVars

Join ==
    ~mounted /\ now = 0 /\ join /\ MountEffects /\ UNCHANGED <<wire, peer, inbox>>

MoveCursor ==
    \E p \in {Pos(0, 0), Pos(10, 0)} :
        /\ mounted
        /\ currentUser # Null
        /\ updateCursor([clientX |-> p.x, clientY |-> p.y])
        /\ UNCHANGED linkVars

Unmount ==
    /\ mounted
    /\ timers.orphan + timers.grace <= MaxGrace
    /\ unmount /\ Teardown
    /\ UNCHANGED <<wire, peer, inbox>>

LeaveRoom ==
    mounted /\ leaveRoomClick /\ Reload /\ UNCHANGED <<wire, peer, inbox>>

Tick ==
    /\ mounted
    /\ timers.grace = 0 /\ timers.orphan = 0
    /\ now + TickMs <= MaxTicks * TickMs
    /\ now' = now + TickMs
    /\ lastOp' = Op("tick", 0, 0)
    /\ emitted' = <<>>
    /\ UNCHANGED <<canvasVars, users, currentUser, storage, mounted, linkVars>>

\* setInterval(..., 10000), set at the mount at time 0
Sweep ==
    /\ timers.sweep = 1
    /\ now > 0 /\ now % SweepInterval = 0
    /\ sweep
    /\ UNCHANGED linkVars

RelaySendsPresence ==
    \E ev \in PresenceEvents :
        /\ mounted
        /\ Len(inbox.events) < MaxPresenceInbox
        /\ inbox' = [inbox EXCEPT !.events = Append(@, ev)]
        /\ lastOp' = Op("relay", 0, 0)
        /\ emitted' = <<>>
        /\ UNCHANGED <<canvasVars, presenceVars, wire, peer, connVars>>

PresenceTaken ==
    /\ Len(users') <= MaxUsers
    /\ inbox' = [inbox EXCEPT !.read = @ + 1]
    /\ UNCHANGED <<wire, peer, connVars>>

ReceiveUserJoined ==
    mounted /\ Arrived("userJoined") /\ onUserJoined(ArrivedData) /\ PresenceTaken

ReceiveUserLeft ==
    mounted /\ Arrived("userLeft") /\ onUserLeft(ArrivedData) /\ PresenceTaken

ReceiveCursorUpdate ==
    mounted /\ Arrived("cursorUpdate") /\ onCursorUpdate(ArrivedData) /\ PresenceTaken

ReceiveUserList ==
    mounted /\ Arrived("userList") /\ onUserList(ArrivedData) /\ PresenceTaken

NextPresence ==
    \/ Join
    \/ MoveCursor
    \/ Unmount
    \/ LeaveRoom
    \/ Tick
    \/ Sweep
    \/ RelaySendsPresence
    \/ ReceiveUserJoined
    \/ ReceiveUserLeft
    \/ ReceiveCursorUpdate
    \/ ReceiveUserList

SpecPresence == InitPresence /\ [][NextPresence]_vars

----------------------------------------------------------------------------
(* The joined client as a receiver of everything the relay rebroadcasts:   *)
(* board events and presence events in one log                             *)

RelaySendsAny ==
    \E ev \in InboundEvents \cup PresenceEvents :
        /\ mounted
        /\ Len(inbox.events) < MaxPresenceInbox
        /\ inbox' = [inbox EXCEPT !.events = Append(@, ev)]
        /\ lastOp' = Op("relay", 0, 0)
        /\ emitted' = <<>>
        /\ UNCHANGED <<canvasVars, presenceVars, wire, peer, connVars>>

NextEcho ==
    \/ Join
    \/ RelaySendsAny
    \/ ReceiveDraw
    \/ ReceiveUpdateBoard
    \/ ReceiveLoadBoard
    \/ ReceiveClearBoard
    \/ ReceiveUserJoined
    \/ ReceiveUserLeft
    \/ ReceiveCursorUpdate
    \/ ReceiveUserList

SpecEcho == InitPresence /\ [][NextEcho]_vars

----------------------------------------------------------------------------
(* The transport: connect, disconnect and connect_error of the socket, the *)
(* handlers WhiteboardCanvas and RoomPage register for them, and the       *)
(* timers of the component                                                 *)

\* The currentUser of the render whose effect registered the handlers: the
\* effect has the dependency list [socket], so it runs in the first render
\* only, where currentUser is its initial state useState<User | null>(null)
FirstRenderUser == Null

\* socket.on("connect") of WhiteboardCanvas
onConnect ==
    /\ isConnected' = TRUE
    /\ emitted' = IF FirstRenderUser # Null
                  THEN <<[event |-> "joinRoom", roomId |-> RoomId,
                          user |-> FirstRenderUser]>>
                  ELSE <<>>

\* The socket connects; the handlers of WhiteboardCanvas and of RoomPage
\* run if they are registered
Connect ==
    /\ ~socketConnected
    /\ socketConnected' = TRUE
    /\ lastOp' = Op("connect", 0, 0)
    /\ IF mounted
       THEN onConnect /\ pageIsConnected' = TRUE
       ELSE emitted' = <<>> /\ UNCHANGED <<isConnected, pageIsConnected>>
    /\ UNCHANGED <<canvasVars, presenceVars, timers, wire, peer, inbox>>

\* The socket loses its connection: socket.on("disconnect") of
\* WhiteboardCanvas sets a timeout of 1000 ms, the one of RoomPage calls
\* setIsConnected(false)
Disconnect ==
    /\ socketConnected
    /\ timers.grace < MaxGrace
    /\ socketConnected' = FALSE
    /\ lastOp' = Op("disconnect", 0, 0)
    /\ emitted' = <<>>
    /\ IF mounted
       THEN /\ timers' = [timers EXCEPT !.grace = @ + 1]
            /\ pageIsConnected' = FALSE
       ELSE UNCHANGED <<timers, pageIsConnected>>
    /\ UNCHANGED <<canvasVars, presenceVars, isConnected, wire, peer, inbox>>

\* socket.on("connect_error"): an attempt to connect has failed
ConnectError ==
    /\ ~socketConnected
    /\ mounted
    /\ lastOp' = Op("connect_error", 0, 0)
    /\ isConnected' = FALSE
    /\ emitted' = <<>>
    /\ UNCHANGED <<canvasVars, presenceVars, pageIsConnected, socketConnected,
                   timers, wire, peer, inbox>>

\* The callback of a disconnect timeout of the mounted component
GraceFires ==
    /\ timers.grace > 0
    /\ timers' = [timers EXCEPT !.grace = @ - 1]
    /\ lastOp' = Op("graceTimeout", 0, 0)
    /\ isConnected' = IF ~socketConnected THEN FALSE ELSE isConnected
    /\ emitted' = <<>>
    /\ UNCHANGED <<canvasVars, presenceVars, pageIsConnected, socketConnected,
                   wire, peer, inbox>>

\* The callback of a disconnect timeout whose component has been torn
\* down: it reads socket.connected and calls the setIsConnected of the
\* unmounted component, which React ignores
OrphanFires ==
    /\ timers.orphan > 0
    /\ timers' = [timers EXCEPT !.orphan = @ - 1]
    /\ lastOp' = Op("graceTimeout", 0, 0)
    /\ emitted' = <<>>
    /\ UNCHANGED <<canvasVars, presenceVars, isConnected, pageIsConnected,
                   socketConnected, wire, peer, inbox>>

\* The callback of the heartbeat interval
Heartbeat ==
    /\ timers.heartbeat = 1
    /\ lastOp' = Op("heartbeat", 0, 0)
    /\ emitted' = IF currentUser # Null /\ currentUser.cursor # Null
                  THEN <<[event |-> "cursorMove", roomId |-> RoomId,
                          userId |-> currentUser.id,
                          cursor |-> currentUser.cursor]>>
                  ELSE <<>>
    /\ UNCHANGED <<canvasVars, presenceVars, linkVars>>

NextConnection ==
    \/ Join
    \/ MoveCursor
    \/ Unmount
    \/ LeaveRoom
    \/ Tick
    \/ Sweep
    \/ Heartbeat
    \/ Connect
    \/ Disconnect
    \/ ConnectError
    \/ GraceFires
    \/ OrphanFires

SpecConnection == InitPresence /\ [][NextConnection]_vars

----------------------------------------------------------------------------
(* Properties of the history *)

\* C1: in every reachable state the history is non-empty and
\* 0 <= historyIndex <= length(history) - 1
C1_HistoryIndexInBounds ==
    /\ Len(history) >= 1
    /\ historyIndex >= 0
    /\ historyIndex <= Len(history) - 1

\* A state an undo left in the middle of a history of three snapshots
C1_Witness ==
    /\ lastOp.op = "undo"
    /\ Len(history) = 3
    /\ historyIndex = 1

\* The step is a commit: a pointer handler that wrote the history
IsCommit ==
    /\ lastOp'.op \in {"handleMouseDown", "handleMouseMove", "handleMouseUp"}
    /\ <<history, historyIndex>>' # <<history, historyIndex>>

\* C2: a commit with the log at index i leaves the old entries 0..i followed
\* by the new snapshot and the index on the new last slot, so that the
\* entries beyond i are gone and redo has nothing to redo
C2_CommitTruncatesAndAppends ==
    [][IsCommit =>
          /\ Len(history') = historyIndex + 2
          /\ \A k \in 1..(historyIndex + 1) : history'[k] = history[k]
          /\ history'[historyIndex + 2] = Snapshot(lines', shapes')
          /\ historyIndex' = Len(history') - 1
          /\ ~(historyIndex' < Len(history') - 1)]_vars

\* A commit made at index 0 of a history of three snapshots: two entries
\* were discarded
C2_Witness ==
    /\ lastOp.op = "handleMouseUp"
    /\ lastOp.length = 3
    /\ lastOp.index = 0
    /\ Len(history) = 2
    /\ historyIndex = 1

\* C3: undo at index 0 and redo at the last index change neither the board
\* nor the history nor the index, and emit nothing
C3_UndoRedoAtBoundsNoOp ==
    [][(\/ lastOp'.op = "undo" /\ historyIndex = 0
        \/ lastOp'.op = "redo" /\ historyIndex = Len(history) - 1)
          => /\ UNCHANGED <<lines, shapes, history, historyIndex>>
             /\ emitted' = <<>>]_vars

\* A redo that ran at the last index of a history of two snapshots
C3_Witness ==
    /\ lastOp.op = "redo"
    /\ lastOp.length = 2
    /\ lastOp.index = 1
    /\ historyIndex = 1
    /\ emitted = <<>>

\* What undo (step = -1) and redo (step = 1) do away from the bounds
MovesBy(step) ==
    /\ historyIndex' = historyIndex + step
    /\ lines' = history[historyIndex + step + 1].lines
    /\ shapes' = history[historyIndex + step + 1].shapes
    /\ history' = history
    /\ emitted' = <<[event |-> "updateBoard", lines |-> lines',
                     shapes |-> shapes']>>

\* C4: undo with historyIndex > 0 moves the index one back, makes the board
\* the snapshot at the new index, keeps the log and emits exactly one
\* updateBoard carrying that snapshot; redo below the last index does the
\* same one step forward
C4_UndoRedoApplySnapshot ==
    [][/\ (lastOp'.op = "undo" /\ historyIndex > 0) => MovesBy(-1)
       /\ (lastOp'.op = "redo" /\ historyIndex < Len(history) - 1) => MovesBy(1)]_vars

\* An undo from index 2 that brought back a board differing from the one
\* it left
C4_Witness ==
    /\ lastOp.op = "undo"
    /\ lastOp.index = 2
    /\ historyIndex = 1
    /\ history[2] # history[3]
    /\ lines = history[2].lines
    /\ Len(emitted) = 1

\* C5: after a clear, local or inbound, the board has no strokes and no
\* shapes and the history is the single empty snapshot at index 0; the local
\* clear emitted exactly one clearBoard and the inbound one nothing
C5_ClearResets ==
    lastOp.op \in {"clearCanvas", "clearBoard"} =>
        /\ lines = <<>>
        /\ shapes = <<>>
        /\ history = <<EmptySnapshot>>
        /\ historyIndex = 0
        /\ emitted = IF lastOp.op = "clearCanvas"
                     THEN <<[event |-> "clearBoard"]>>
                     ELSE <<>>

\* An inbound clearBoard that found a history of three snapshots
C5_Witness ==
    /\ lastOp.op = "clearBoard"
    /\ lastOp.length = 3
    /\ lastOp.index = 2

----------------------------------------------------------------------------
(* Properties of the eraser *)

\* The step runs eraseAtPoint at the position lastOp' records
ErasePass ==
    /\ selectedTool = "eraser"
    /\ ~isPanning
    /\ \/ lastOp'.op = "handleMouseDown"
       \/ lastOp'.op = "handleMouseMove" /\ isDrawingRef /\ startPos # Null

\* The state eraseAtPoint left, at the position lastOp records
Erased ==
    /\ selectedTool = "eraser"
    /\ ~isPanning
    /\ \/ lastOp.op = "handleMouseDown"
       \/ lastOp.op = "handleMouseMove" /\ isDrawingRef /\ startPos # Null

\* The point (px, py) is within the eraser circle of radius 12 / scale
\* centred at (x, y)
InCircle(px, py, x, y) ==
    ((px - x) * (px - x) + (py - y) * (py - y)) * viewport.scale.n * viewport.scale.n
        <= 144 * viewport.scale.d * viewport.scale.d

\* The number of points of a stroke
NumPoints(line) == Len(line.points) \div 2

\* The i-th point of the stroke is within the eraser circle at (x, y)
PointInside(line, i, x, y) ==
    InCircle(line.points[2 * i - 1], line.points[2 * i], x, y)

\* Some stroke of ls has a point within the eraser circle at (x, y)
SomePointInside(ls, x, y) ==
    \E k \in 1..Len(ls) : \E i \in 1..NumPoints(ls[k]) : PointInside(ls[k], i, x, y)

Min(a, b) == IF a <= b THEN a ELSE b

Max(a, b) == IF a >= b THEN a ELSE b

\* (x, y) is within the rectangle's bounds moved out by the eraser radius,
\* or within the circle's radius plus the eraser radius
Touches(shape, x, y) ==
    IF shape.type = "rectangle"
    THEN /\ (x - Min(shape.x, shape.x + shape.width)) * viewport.scale.n
                >= -(12 * viewport.scale.d)
         /\ (x - Max(shape.x, shape.x + shape.width)) * viewport.scale.n
                <= 12 * viewport.scale.d
         /\ (y - Min(shape.y, shape.y + shape.height)) * viewport.scale.n
                >= -(12 * viewport.scale.d)
         /\ (y - Max(shape.y, shape.y + shape.height)) * viewport.scale.n
                <= 12 * viewport.scale.d
    ELSE shape.type = "circle" /\ CircleTouching(shape, x, y, viewport.scale)

\* C6: an erase whose circle contains no point of any stroke and touches no
\* shape leaves strokes, shapes, history and index unchanged and emits
\* nothing
C6_EraseMissIsNoOp ==
    [][(/\ ErasePass
        /\ ~SomePointInside(lines, lastOp'.x, lastOp'.y)
        /\ \A k \in 1..Len(shapes) : ~Touches(shapes[k], lastOp'.x, lastOp'.y))
          => /\ UNCHANGED <<lines, shapes, history, historyIndex>>
             /\ emitted' = <<>>]_vars

\* The eraser of radius 3 put down at (10, 5), 5 away from a stroke point at
\* (10, 0) and from nothing else nearer, left the board as it was
C6_Witness ==
    /\ Erased
    /\ lastOp.x = 10 /\ lastOp.y = 5
    /\ viewport.scale = Rat(4, 1)
    /\ \E i \in 1..NumPoints(lines[1]) :
          lines[1].points[2 * i - 1] = 10 /\ lines[1].points[2 * i] = 0
    /\ Len(shapes) = 1
    /\ emitted = <<>>
    /\ lastOp.index = historyIndex
    /\ lastOp.length = Len(history)

\* C7: an erase pass in which a stroke has a point inside the eraser circle
\* or a shape is removed replaces the live collections, pushes exactly one
\* history entry equal to them and emits exactly one updateBoard carrying
\* them
C7_EraseHitCommits ==
    [][(/\ ErasePass
        /\ \/ SomePointInside(lines, lastOp'.x, lastOp'.y)
           \/ Len(shapes') < Len(shapes))
          => /\ ~SomePointInside(lines', lastOp'.x, lastOp'.y)
             /\ Len(history') = historyIndex + 2
             /\ \A k \in 1..(historyIndex + 1) : history'[k] = history[k]
             /\ history'[Len(history')] = Snapshot(lines', shapes')
             /\ historyIndex' = Len(history') - 1
             /\ emitted' = <<[event |-> "updateBoard", lines |-> lines',
                              shapes |-> shapes']>>]_vars

\* The stroke of C8
Stroke3 == <<0, 0, 10, 0, 20, 0>>

\* The erase of C8: the board holds the one stroke (0,0),(10,0),(20,0) and
\* the eraser of radius 3 is put at (10, 0)
C8_Case ==
    /\ ErasePass
    /\ Len(lines) = 1
    /\ lines[1].points = Stroke3
    /\ viewport.scale = Rat(4, 1)
    /\ lastOp'.x = 10 /\ lastOp'.y = 0

\* (px, py) is at most 1 away from (qx, qy)
Near(px, py, qx, qy) == (px - qx) * (px - qx) + (py - qy) * (py - qy) <= 1

\* C8 as stated: the erase yields two fragments, one ending near (7, 0) and
\* one starting near (13, 0), neither with a point within 3 of (10, 0)
C8_TwoFragments ==
    [][C8_Case =>
          /\ Len(lines') = 2
          /\ Near(lines'[1].points[Len(lines'[1].points) - 1],
                  lines'[1].points[Len(lines'[1].points)], 7, 0)
          /\ Near(lines'[2].points[1], lines'[2].points[2], 13, 0)
          /\ ~SomePointInside(lines', 10, 0)]_vars

\* C8 amended: the erase yields no fragment, the outside runs (0,0) and
\* (20,0) having one point each; no stroke is left, so none has a point
\* within 3 of (10, 0), and the empty board is committed and broadcast
C8_NoFragment ==
    [][C8_Case =>
          /\ lines' = <<>>
          /\ history'[Len(history')].lines = <<>>
          /\ Len(emitted') = 1
          /\ emitted'[1].lines = <<>>]_vars

\* The erase of C8 has run: the snapshot before the last holds the stroke
\* and the board is empty
C8_Witness ==
    /\ Erased
    /\ lastOp.x = 10 /\ lastOp.y = 0
    /\ viewport.scale = Rat(4, 1)
    /\ Len(history) = 3
    /\ historyIndex = 2
    /\ Len(history[2].lines) = 1
    /\ history[2].lines[1].points = Stroke3
    /\ lines = <<>>

\* C9: after an erase pass no stroke of the board has a point within the
\* eraser circle, strokes of a single point included
C9_NoPointLeftInside ==
    Erased => ~SomePointInside(lines, lastOp.x, lastOp.y)

\* The runs <<i, j>> of a stroke: points i..j are outside, the points before
\* i and after j (if any) are inside, and the run has at least 2 points
Runs(line, x, y) ==
    { r \in (1..NumPoints(line)) \X (1..NumPoints(line)) :
        /\ r[1] < r[2]
        /\ \A i \in r[1]..r[2] : ~PointInside(line, i, x, y)
        /\ r[1] = 1 \/ PointInside(line, r[1] - 1, x, y)
        /\ r[2] = NumPoints(line) \/ PointInside(line, r[2] + 1, x, y) }

\* The fragments of a stroke: its runs in order (the k-th is the run with
\* k - 1 runs before it), each with the stroke's tool, color and lineWidth
RunFragments(line, x, y) ==
    LET R == Runs(line, x, y)
    IN  [k \in 1..Cardinality(R) |->
            LET r == CHOOSE r \in R : Cardinality({ q \in R : q[1] < r[1] }) = k - 1
            IN  [points |-> SubSeq(line.points, 2 * r[1] - 1, 2 * r[2]),
                 tool |-> line.tool, color |-> line.color,
                 lineWidth |-> line.lineWidth]]

RECURSIVE AllRunFragments(_, _, _, _)
AllRunFragments(ls, k, x, y) ==
    IF k > Len(ls)
    THEN <<>>
    ELSE RunFragments(ls[k], x, y) \o AllRunFragments(ls, k + 1, x, y)

\* C10: the fragments the eraser makes of a stroke of at least 2 points are
\* its maximal runs of outside points that have at least 2 points, in order
\* and with the stroke's tool, color and lineWidth; on a board of such
\* strokes the new board is these fragments, stroke after stroke
C10_FragmentsAreMaximalRuns ==
    [][ErasePass =>
          /\ \A k \in 1..Len(lines) :
                NumPoints(lines[k]) >= 2 =>
                    EraseLine(lines[k], lastOp'.x, lastOp'.y, viewport.scale)
                        = RunFragments(lines[k], lastOp'.x, lastOp'.y)
          /\ (\A k \in 1..Len(lines) : NumPoints(lines[k]) >= 2) =>
                lines' = AllRunFragments(lines, 1, lastOp'.x, lastOp'.y)]_vars

\* A stroke of five points was cut at its middle point into two fragments of
\* two points, and a red stroke wholly inside the circle left no fragment
C10_Witness ==
    /\ Erased
    /\ Len(history) = 3
    /\ historyIndex = 2
    /\ Len(history[2].lines) = 1
    /\ NumPoints(history[2].lines[1]) = 5
    /\ Len(lines) = 2
    /\ NumPoints(lines[1]) = 2
    /\ NumPoints(lines[2]) = 2

----------------------------------------------------------------------------
(* Properties of committed strokes and of the rectangle test *)

\* C11: no history snapshot and no emitted draw event holds a stroke of
\* fewer than 2 points, whatever pen gesture was made (pointer-down followed
\* at once by pointer-up included)
C11_NoShortStrokePersisted ==
    /\ \A h \in 1..Len(history) :
          \A k \in 1..Len(history[h].lines) : NumPoints(history[h].lines[k]) >= 2
    /\ \A m \in 1..Len(emitted) :
          (emitted[m].event = "draw" /\ IsStroke(emitted[m].strokeData))
              => NumPoints(emitted[m].strokeData) >= 2

\* C12: an erase pass removes a rectangle exactly when the contact point is
\* within the rectangle's bounds moved out by the eraser radius on all
\* sides, whatever the signs of its width and height
C12_RectRemovedIffInBounds ==
    [][ErasePass =>
          shapes' = SelectSeq(shapes,
                        LAMBDA s : ~Touches(s, lastOp'.x, lastOp'.y))]_vars

\* The scale s is within [0.1, 5]
ScaleInRange(s) == s.n * 10 >= s.d /\ s.n <= 5 * s.d

\* The scale a wheel step gives from s: s times 0.9 or 1.1, or the bound
\* when the product is beyond it
Zoomed(s, num) ==
    IF s.n * num > 50 * s.d THEN Rat(5, 1)
    ELSE IF s.n * num * 10 < 10 * s.d THEN Rat(1, 10)
    ELSE Lowest(s.n * num, s.d * 10)

\* C13: the scale stays within [0.1, 5] through every wheel, pan and reset
\* step, and a wheel step whose product is beyond a bound sets the scale to
\* that bound
C13_ScaleClamped ==
    [][/\ ScaleInRange(viewport'.scale)
       /\ lastOp'.op = "handleWheel"
            => viewport'.scale \in {Zoomed(viewport.scale, 9),
                                    Zoomed(viewport.scale, 11)}
       /\ lastOp'.op \in {"handleMouseDown", "handleMouseMove", "handleMouseUp"}
            => viewport'.scale = viewport.scale
       /\ lastOp'.op = "resetView" => viewport'.scale = Rat(1, 1)]_vars

\* A wheel step in at scale 4.95 (product 5.445) left the scale at 5
C13_Witness ==
    /\ lastOp.op = "handleWheel"
    /\ lastOp.scale = Rat(99, 20)
    /\ viewport.scale = Rat(5, 1)

----------------------------------------------------------------------------
(* Properties of the inbound board events *)

\* The relay delivers a pen stroke's draw event to a peer whose board is
\* empty and whose history is the one empty snapshot
FirstStrokeDelivered ==
    /\ wire # <<>>
    /\ wire' = Tail(wire)
    /\ Head(wire).event = "draw"
    /\ IsStroke(Head(wire).strokeData)
    /\ peer.lines = <<>> /\ peer.shapes = <<>>
    /\ peer.history = <<EmptySnapshot>>

\* C14: when a committed pen stroke's draw event is delivered to a peer with
\* an empty board and the single initial snapshot, the peer's strokes become
\* exactly that stroke and its history length becomes 2
C14_PeerGetsStrokeAndEntry ==
    [][FirstStrokeDelivered
          => /\ peer'.lines = <<Head(wire).strokeData>>
             /\ Len(peer'.history) = 2]_vars

\* The event the handlers took last
LastTaken == inbox.events[inbox.read]

\* An updateBoard payload without its lines or its shapes, or a draw payload
\* that is neither a stroke nor a rectangle or circle
Malformed(ev) ==
    \/ /\ ev.event = "updateBoard"
       /\ ~("lines" \in DOMAIN ev.data /\ "shapes" \in DOMAIN ev.data)
    \/ /\ ev.event = "draw"
       /\ ~IsStroke(DrawPayload(ev.data))
       /\ ~IsShape(DrawPayload(ev.data))

\* C15: a malformed inbound updateBoard or draw leaves the live strokes,
\* the live shapes and the history exactly as they were
C15_MalformedIgnored ==
    [][(/\ inbox'.read = inbox.read + 1
        /\ Malformed(inbox.events[inbox.read + 1]))
          => UNCHANGED <<lines, shapes, history, historyIndex>>]_vars

\* C16: after an inbound updateBoard the live strokes and shapes are exactly
\* the payload's lists, whatever the board held and whichever updateBoard
\* was applied before
C16_LastUpdateBoardWins ==
    (/\ inbox.read > 0
     /\ LastTaken.event = "updateBoard"
     /\ ~Malformed(LastTaken))
        => /\ lines = LastTaken.data.lines
           /\ shapes = LastTaken.data.shapes

\* Two clients' boards were applied one after the other and the board is
\* the second
C16_Witness ==
    /\ inbox.read = 2
    /\ inbox.events[1] = [event |-> "updateBoard", data |-> BoardA]
    /\ inbox.events[2] = [event |-> "updateBoard", data |-> BoardB]
    /\ lines = <<RedStroke>>
    /\ shapes = <<>>

----------------------------------------------------------------------------
(* Properties of presence and identity *)

\* The userJoined event the handler takes in this step
JoinedNow ==
    /\ inbox'.read = inbox.read + 1
    /\ inbox.events[inbox.read + 1].event = "userJoined"

\* The entry after carries the payload's fields, and elsewhere the fields
\* of the entry before (isActive aside, which the handler sets)
CarriesPayload(after, before, payload) ==
    /\ \A f \in DOMAIN payload \ {"isActive"} : after[f] = payload[f]
    /\ \A f \in DOMAIN before \ (DOMAIN payload \cup {"isActive"}) :
          after[f] = before[f]

\* C17: userJoined appends one entry when no user has the payload's id, and
\* otherwise merges the payload into the entry with that id without adding
\* one; taking the same userJoined twice in a row leaves the presence set
\* as after the first
C17_UserJoinedUpsert ==
    [][JoinedNow =>
        LET payload == inbox.events[inbox.read + 1].data
            known == \E i \in 1..Len(users) : users[i].id = payload.id
        IN  /\ ~known =>
                /\ Len(users') = Len(users) + 1
                /\ SubSeq(users', 1, Len(users)) = users
                /\ CarriesPayload(users'[Len(users')], << >>, payload)
            /\ known =>
                /\ Len(users') = Len(users)
                /\ \A i \in 1..Len(users) :
                      IF users[i].id = payload.id
                      THEN CarriesPayload(users'[i], users[i], payload)
                      ELSE users'[i] = users[i]
            /\ (/\ lastOp.op = "userJoined"
                /\ inbox.read > 0
                /\ inbox.events[inbox.read] = inbox.events[inbox.read + 1])
                  => users' = users]_vars

\* The same userJoined was taken twice in a row: the second found the user
\* present and added no entry
C17_Witness ==
    /\ lastOp.op = "userJoined"
    /\ inbox.read = 2
    /\ inbox.events[1] = inbox.events[2]
    /\ inbox.events[2].data = UserB
    /\ lastOp.present = 2
    /\ Len(users) = 2
    /\ users[2] = UserB

\* The milliseconds since the user was last seen
Age(user) == now - user.lastSeen

\* C18: a sweep removes every user last seen more than 30 s ago, keeps
\* every user last seen less than 30 s ago (one refreshed by a cursorUpdate
\* among them) as it is, and changes nothing else
C18_SweepRemovesStale ==
    [][lastOp'.op = "sweep" =>
        /\ \A i \in 1..Len(users) :
              Age(users[i]) > 30000
                 => \A j \in 1..Len(users') : users'[j].id # users[i].id
        /\ \/ users' = SelectSeq(users, LAMBDA u : Age(u) < 30000)
           \/ users' = SelectSeq(users, LAMBDA u : Age(u) <= 30000)
        /\ emitted' = <<>>
        /\ UNCHANGED <<canvasVars, currentUser, storage, now, mounted, linkVars>>
      ]_vars

\* The sweep at 10 s found two users: the one last seen a minute ago is
\* gone, the one a cursorUpdate refreshed at 5 s is kept
C18_Witness ==
    /\ lastOp.op = "sweep"
    /\ now = 10000
    /\ lastOp.present = 2
    /\ currentUser # Null /\ currentUser.lastSeen = -60000
    /\ Len(users) = 1
    /\ users[1].id = UserB.id
    /\ users[1].lastSeen = 5000
    /\ users[1].cursor = Pos(3, 4)

\* C19: the join adopts the stored User record and leaves the store as it
\* is, or, with no stored record, makes a new record and stores it; either
\* way it emits one joinRoom carrying the adopted record
C19_JoinAdoptsOrMints ==
    [][lastOp'.op = "join" =>
        /\ IF storage # Null
           THEN /\ currentUser' = storage.json
                /\ storage' = storage
           ELSE /\ storage' # Null
                /\ storage'.json = currentUser'
                /\ currentUser'.id \in UserIds
                /\ currentUser'.cursor = Null
                /\ currentUser'.lastSeen = now
        /\ emitted' = <<[event |-> "joinRoom", roomId |-> RoomId,
                         user |-> currentUser']>>]_vars

\* The join found the record of the earlier visit and adopted it
C19_Witness ==
    /\ lastOp.op = "join"
    /\ currentUser = EarlierUser
    /\ storage = JSONstringify(EarlierUser)
    /\ emitted = <<[event |-> "joinRoom", roomId |-> RoomId,
                    user |-> EarlierUser]>>

\* C20: a leaveRoom is emitted, and the stored User record removed, only by
\* the teardown of the component or by the Leave Room button
C20_LeaveOnlyOnLeave ==
    [][(\/ \E m \in 1..Len(emitted') : emitted'[m].event = "leaveRoom"
        \/ storage # Null /\ storage' = Null)
          => lastOp'.op \in {"unmount", "leaveRoomClick"}]_vars

----------------------------------------------------------------------------
(* Pointer-move and the history *)

\* The step is a pointer-move inside a pen or shape gesture
GestureMove ==
    /\ lastOp'.op = "handleMouseMove"
    /\ isDrawingRef /\ startPos # Null /\ ~isPanning
    /\ selectedTool \in {"pen", "rectangle", "circle"}

\* Two collections of the same length that differ at most in the last element
TailOnly(old, new) ==
    /\ Len(new) = Len(old)
    /\ \A k \in 1..(Len(old) - 1) : new[k] = old[k]

\* What a pointer-move of a pen or shape gesture leaves alone
MoveFrame ==
    /\ TailOnly(lines, lines') /\ TailOnly(shapes, shapes')
    /\ selectedTool = "pen" => shapes' = shapes
    /\ selectedTool # "pen" => lines' = lines
    /\ history' = history /\ historyIndex' = historyIndex
    /\ emitted' = <<>>

\* The step is one of the local commit points: pointer-up, an eraser contact
\* or the clear button
LocalCommitPoint ==
    \/ lastOp'.op \in {"handleMouseUp", "clearCanvas"}
    \/ /\ lastOp'.op \in {"handleMouseDown", "handleMouseMove"}
       /\ selectedTool = "eraser"

\* C24 as stated: a pointer-move of a pen or shape gesture changes only the
\* tail of the live collection, writes no history, moves no index and emits
\* nothing, and the history is written only at pointer-up, at an eraser
\* contact and at clear
C24_HistoryOnlyAtLocalCommits ==
    [][/\ GestureMove => MoveFrame
       /\ history' # history => LocalCommitPoint]_vars

\* C24 amended: the same frame for the pointer-move; the history is written
\* only at pointer-up, at an eraser contact, at clear and by the inbound
\* loadBoard and clearBoard handlers
C24_MoveWritesNoHistory ==
    [][/\ GestureMove => MoveFrame
       /\ history' # history =>
              LocalCommitPoint \/ lastOp'.op \in {"loadBoard", "clearBoard"}]_vars

\* A pen gesture whose pointer-move has extended the stroke of its
\* pointer-down, with the history still at its initial entry
C24_Witness ==
    /\ lastOp.op = "handleMouseMove"
    /\ isDrawingRef /\ selectedTool = "pen"
    /\ Len(lines) = 1 /\ Len(lines[1].points) = 4
    /\ Len(history) = 1 /\ historyIndex = 0

----------------------------------------------------------------------------
(* A pen gesture and the strokes of the other clients *)

\* The stroke begins with the points of a stroke the relay delivers: the
\* local pointer draws at PointerPositions only, so it came in from the relay
FromRelay(stroke) ==
    \E data \in DrawPayloads :
        LET payload == DrawPayload(data)
        IN  /\ IsStroke(payload)
            /\ Len(stroke.points) >= Len(payload.points)
            /\ SubSeq(stroke.points, 1, Len(payload.points)) = payload.points

\* The step is a pointer-move or the pointer-up of a pen gesture
PenGestureStep ==
    /\ lastOp'.op \in {"handleMouseMove", "handleMouseUp"}
    /\ isDrawingRef /\ selectedTool = "pen"

\* C25: a pointer-move or pointer-up of a pen gesture leaves every stroke
\* that came in from the relay as it was, and the draw event of the
\* pointer-up does not carry such a stroke, also when the stroke arrived
\* between the pointer-down and the pointer-up
C25_RemoteStrokeUntouched ==
    [][PenGestureStep =>
          /\ \A k \in 1..Len(lines) :
                 FromRelay(lines[k]) => k <= Len(lines') /\ lines'[k] = lines[k]
          /\ \A m \in 1..Len(emitted') :
                 emitted'[m].event = "draw" => ~FromRelay(emitted'[m].strokeData)]_vars

----------------------------------------------------------------------------
(* The live board and the snapshot under the index *)

\* C26: whenever no pointer gesture is in progress, the live strokes and
\* shapes equal the snapshot at history[historyIndex]
C26_IdleBoardIsSnapshot ==
    AtToolbar => Snapshot(lines, shapes) = history[historyIndex + 1]

----------------------------------------------------------------------------
(* The base of the history *)

\* C28: history[0] is the empty snapshot in every reachable state, and an
\* undo that arrives at index 0 leaves the board empty, also when a
\* loadBoard delivered a board that was not empty
C28_BaseSnapshotEmpty ==
    /\ history[1] = EmptySnapshot
    /\ (lastOp.op = "undo" /\ lastOp.index = 1 /\ historyIndex = 0)
          => lines = <<>> /\ shapes = <<>>

\* The undo of a loaded board that was not empty
C28_Witness ==
    /\ lastOp.op = "undo" /\ lastOp.index = 1 /\ historyIndex = 0
    /\ Len(history) = 2
    /\ history[2] = Snapshot(<<Stroke2>>, <<Rect1>>)
    /\ lines = <<>> /\ shapes = <<>>

----------------------------------------------------------------------------
(* The local user in the presence set *)

\* The ids of the presence set, in order
PresentIds(us) == [i \in 1..Len(us) |-> us[i].id]

\* The local user has an entry in the presence set
LocalPresent(us) ==
    /\ currentUser # Null
    /\ \E i \in 1..Len(us) : us[i].id = currentUser.id

\* C27: while the client is joined, a staleness sweep does not remove the
\* entry of the local user from the presence set
C27_SweepKeepsLocalUser ==
    [][(lastOp'.op = "sweep" /\ mounted /\ LocalPresent(users))
          => LocalPresent(users')]_vars

\* C29: the presence set holds at most one entry per user id, and a
\* cursorUpdate leaves the ids of the set as they are, so that an id that is
\* not present is not inserted
C29_OneEntryPerId ==
    [][/\ \A i, j \in 1..Len(users') :
              users'[i].id = users'[j].id => i = j
       /\ lastOp'.op = "cursorUpdate" =>
              PresentIds(users') = PresentIds(users)]_vars

\* A cursorUpdate for a user that is not present has been applied to a
\* presence set that holds the local user
C29_Witness ==
    /\ lastOp.op = "cursorUpdate"
    /\ inbox.read > 0
    /\ inbox.events[inbox.read].data.userId = UserB.id
    /\ LocalPresent(users)
    /\ \A i \in 1..Len(users) : users[i].id # UserB.id
    /\ Len(users) = lastOp.present

----------------------------------------------------------------------------
(* Inbound events and the relay *)

\* The step is the application of the inbound event named
Applied(name) ==
    /\ inbox'.read = inbox.read + 1
    /\ inbox.events[inbox.read + 1].event = name

\* C30: the application of an inbound loadBoard, draw, updateBoard,
\* clearBoard, userJoined, userLeft, cursorUpdate or userList event emits
\* no event
C30_InboundEmitsNothing ==
    [][(\E name \in {"loadBoard", "draw", "updateBoard", "clearBoard",
                     "userJoined", "userLeft", "cursorUpdate", "userList"} :
            Applied(name))
          => emitted' = <<>>]_vars

\* An inbound draw and then an inbound userJoined have been applied: the
\* stroke is on the board, the user is present and nothing was emitted
C30_Witness ==
    /\ inbox.read = 2
    /\ inbox.events[1] = [event |-> "draw",
                          data |-> [roomId |-> "room", strokeData |-> Stroke2]]
    /\ inbox.events[2] = [event |-> "userJoined", data |-> UserB]
    /\ lines = <<Stroke2>>
    /\ Len(users) = 2
    /\ lastOp.op = "userJoined"
    /\ emitted = <<>>

----------------------------------------------------------------------------
(* The transport and the timers *)

\* The step is a connect event that follows a disconnect of the joined
\* client, whose timeout is still pending
Reconnect ==
    /\ lastOp'.op = "connect"
    /\ mounted /\ currentUser # Null
    /\ timers.grace > 0

\* C21: when the transport reconnects after the client has joined, the
\* client emits joinRoom with its own User record
C21_ReconnectRejoins ==
    [][Reconnect =>
          \E m \in 1..Len(emitted') :
              emitted'[m] = [event |-> "joinRoom", roomId |-> RoomId,
                             user |-> currentUser]]_vars

\* C22: a disconnect leaves the connection status the client shows as it
\* was, the status stays connected while a disconnect timeout is pending,
\* and a timeout that finds the transport connected again leaves it
\* connected
C22_GraceWindow ==
    [][(mounted /\ mounted') =>
          /\ (lastOp'.op = "disconnect" /\ isConnected /\ pageIsConnected)
                => (isConnected' /\ pageIsConnected')
          /\ (timers.grace > 0 /\ isConnected /\ lastOp'.op # "graceTimeout")
                => isConnected'
          /\ (lastOp'.op = "graceTimeout" /\ socketConnected /\ isConnected)
                => isConnected']_vars

\* C23: the callbacks of the heartbeat, of the sweep and of the disconnect
\* timeout run only while the component is mounted, and none runs for a
\* component that has been torn down
C23_NoCallbackAfterTeardown ==
    [][lastOp'.op \in {"heartbeat", "sweep", "graceTimeout"}
          => mounted /\ timers'.orphan = timers.orphan]_vars

====
